---------------------------- MODULE Spec2Model ----------------------------
(***************************************************************************)
(* Model of grid/common/Units.hpp (namespaces Dune::prefix, Dune::unit,   *)
(* Dune::unit::convert and Dune::units).                                   *)
(*                                                                         *)
(* The header is a table of `const double` objects, initialised one after  *)
(* the other in the order of their definitions, and four function          *)
(* templates (square, cubic, convert::from, convert::to) that the program  *)
(* instantiates with double.  A double is modelled bit-exactly: IEEE 754   *)
(* binary64, round-to-nearest-even, with the 53-bit significand kept as a  *)
(* natural number in limbs of 15 bits.                                     *)
(***************************************************************************)
EXTENDS Integers, Sequences, FiniteSets, TLC

(***************************************************************************)
(* Natural numbers of arbitrary size: little-endian sequences of limbs in  *)
(* base 2^15, without leading (high) zero limbs.  <<>> is zero.            *)
(***************************************************************************)
Base == 2^15

Pow2(n) == 2^n

\* number of significant bits of n, for 0 <= n < 2^30
IntBits(n) == CHOOSE b \in 0..30 : n < 2^b /\ (b = 0 \/ 2^(b - 1) <= n)

LimbBits == IntBits(Base) - 1

Max(a, b) == IF a >= b THEN a ELSE b

Limb(a, i) == IF i >= 1 /\ i <= Len(a) THEN a[i] ELSE 0

\* a without its high zero limbs
RECURSIVE BNorm(_)
BNorm(a) ==
    IF a = <<>> THEN a
    ELSE IF a[Len(a)] = 0 THEN BNorm(SubSeq(a, 1, Len(a) - 1))
    ELSE a

RECURSIVE BFromInt(_)
BFromInt(n) == IF n = 0 THEN <<>> ELSE <<n % Base>> \o BFromInt(n \div Base)

\* a without its low limb
BRest(a) == IF a = <<>> THEN a ELSE Tail(a)

\* a + b + c for a carry c
RECURSIVE BAddC(_, _, _)
BAddC(a, b, c) ==
    IF b = <<>> /\ c = 0 THEN a
    ELSE IF a = <<>> /\ c = 0 THEN b
    ELSE LET s == Limb(a, 1) + Limb(b, 1) + c
         IN  <<s % Base>> \o BAddC(BRest(a), BRest(b), s \div Base)

BAdd(a, b) == BAddC(a, b, 0)

\* a - b - c for a borrow c, where a >= b + c; high zero limbs are left
RECURSIVE BSubC(_, _, _)
BSubC(a, b, c) ==
    IF b = <<>> /\ c = 0 THEN a
    ELSE LET d == Limb(a, 1) - Limb(b, 1) - c
         IN  <<(d + Base) % Base>>
                 \o BSubC(BRest(a), BRest(b), IF d < 0 THEN 1 ELSE 0)

BSub(a, b) == BNorm(BSubC(a, b, 0))

\* -1, 0, 1 as a < b, a = b, a > b on the limbs 1..i, for Len(a) = Len(b)
RECURSIVE BCmpAt(_, _, _)
BCmpAt(a, b, i) ==
    IF i = 0 THEN 0
    ELSE IF a[i] < b[i] THEN -1
    ELSE IF a[i] > b[i] THEN 1
    ELSE BCmpAt(a, b, i - 1)

BCmp(a, b) ==
    IF Len(a) < Len(b) THEN -1
    ELSE IF Len(a) > Len(b) THEN 1
    ELSE BCmpAt(a, b, Len(a))

\* a * k + c for 0 <= k < Base and a carry c < Base
RECURSIVE BMulSmallC(_, _, _)
BMulSmallC(a, k, c) ==
    IF a = <<>> THEN BFromInt(c)
    ELSE LET p == a[1] * k + c
         IN  <<p % Base>> \o BMulSmallC(Tail(a), k, p \div Base)

BMulSmall(a, k) == IF a = <<>> \/ k = 0 THEN <<>> ELSE BMulSmallC(a, k, 0)

Zeros(n) == [i \in 1..n |-> 0]

BShlLimbs(a, n) == IF a = <<>> THEN <<>> ELSE Zeros(n) \o a

\* a times the limbs i..j of b, each at its place
RECURSIVE BMulAt(_, _, _, _)
BMulAt(a, b, i, j) ==
    IF i = j THEN BShlLimbs(BMulSmall(a, b[i]), i - 1)
    ELSE LET mid == (i + j) \div 2
         IN  BAdd(BMulAt(a, b, i, mid), BMulAt(a, b, mid + 1, j))

BMul(a, b) == IF a = <<>> \/ b = <<>> THEN <<>> ELSE BMulAt(a, b, 1, Len(b))

\* a * 2^n
BShl(a, n) == BShlLimbs(BMulSmall(a, Pow2(n % LimbBits)), n \div LimbBits)

\* floor(a / 2^n)
BShr(a, n) ==
    LET k == n \div LimbBits
        r == n % LimbBits
        lo == Pow2(r)
        hi == Pow2(LimbBits - r)
    IN  IF k >= Len(a) THEN <<>>
        ELSE BNorm([i \in 1..(Len(a) - k) |->
                     (a[i + k] \div lo) + (Limb(a, i + k + 1) % lo) * hi])

\* a mod 2^n
BLow(a, n) ==
    LET k == n \div LimbBits
        r == n % LimbBits
    IN  IF k >= Len(a) THEN a
        ELSE BNorm(SubSeq(a, 1, k) \o <<a[k + 1] % Pow2(r)>>)

\* number of significant bits of a (0 for zero)
BitLen(a) ==
    IF a = <<>> THEN 0 ELSE LimbBits * (Len(a) - 1) + IntBits(a[Len(a)])

\* bit i of a, bit 0 the least significant
BitAt(a, i) == (Limb(a, i \div LimbBits + 1) \div Pow2(i % LimbBits)) % 2

\* Binary long division of n = a * 2^k by d.  DivBit consumes bit i of n,
\* DivBits the bits i down to j (split in halves, to keep the evaluation
\* shallow); st is the quotient and the remainder so far.  Once the remainder
\* is zero and only padding bits are left, the quotient is just shifted.
DivBit(a, k, d, i, st) ==
    LET bit == IF i >= k THEN BitAt(a, i - k) ELSE 0
        r2  == BAdd(BMulSmall(st.r, 2), BFromInt(bit))
        ge  == BCmp(r2, d) >= 0
    IN  [q |-> BAdd(BMulSmall(st.q, 2), IF ge THEN <<1>> ELSE <<>>),
         r |-> IF ge THEN BSub(r2, d) ELSE r2]

RECURSIVE DivBits(_, _, _, _, _, _)
DivBits(a, k, d, i, j, st) ==
    IF i < j THEN st
    ELSE IF i = j THEN DivBit(a, k, d, i, st)
    ELSE LET mid == (i + j) \div 2
             hi  == DivBits(a, k, d, i, mid + 1, st)
         IN  IF hi.r = <<>> /\ mid < k
             THEN [q |-> BShl(hi.q, mid - j + 1), r |-> <<>>]
             ELSE DivBits(a, k, d, mid, j, hi)

\* [q |-> floor(a * 2^k / d), r |-> (a * 2^k) mod d]
BDivMod(a, k, d) ==
    DivBits(a, k, d, BitLen(a) + k - 1, 0, [q |-> <<>>, r |-> <<>>])

RECURSIVE BPow10(_)
BPow10(n) ==
    IF n <= 9 THEN BFromInt(10^n)
    ELSE LET h == BPow10(n \div 2)
         IN  IF n % 2 = 0 THEN BMul(h, h) ELSE BMulSmall(BMul(h, h), 10)

\* the natural number written with the decimal digits ds: the high half of
\* the digits times the power of ten of the low half, plus the low half
RECURSIVE BFromDigits(_)
BFromDigits(ds) ==
    IF ds = <<>> THEN <<>>
    ELSE IF Len(ds) = 1 THEN BFromInt(ds[1])
    ELSE LET h == Len(ds) \div 2
             hi == BFromDigits(SubSeq(ds, 1, Len(ds) - h))
             lo == BFromDigits(SubSeq(ds, Len(ds) - h + 1, Len(ds)))
         IN  IF hi = <<>> THEN lo ELSE BAdd(BMul(hi, BPow10(h)), lo)

(***************************************************************************)
(* double: IEEE 754 binary64.  A finite value is (-1)^s * m * 2^e with     *)
(* m < 2^53; it is normal when m >= 2^52 and subnormal when e = EMin.      *)
(* Zero is m = <<>>, and keeps its sign.                                   *)
(***************************************************************************)
Precision == 53

EMin == -1074

EMax == 971

Fin(s, m, e) == [k |-> "fin", s |-> s, m |-> m, e |-> e]

Inf(s) == [k |-> "inf", s |-> s, m |-> <<>>, e |-> 0]

NaN == [k |-> "nan", s |-> 0, m |-> <<>>, e |-> 0]

Zero(s) == Fin(s, <<>>, 0)

IsZero(x) == x.k = "fin" /\ x.m = <<>>

IsFinite(x) == x.k = "fin"

\* The double nearest to (-1)^s * (n + f) * 2^e, ties to even, where n is a
\* natural number and 0 <= f < 1 with f > 0 iff sticky.  When sticky, n has
\* at least Precision + 2 bits.
Round(s, n, sticky, e) ==
    IF n = <<>> THEN Zero(s)
    ELSE LET sh0 == BitLen(n) - Precision
             sh  == IF e + sh0 < EMin THEN EMin - e ELSE sh0
             e1  == e + sh
         IN  IF sh <= 0
             THEN (IF e1 > EMax THEN Inf(s) ELSE Fin(s, BShl(n, -sh), e1))
             ELSE LET m0   == BShr(n, sh)
                      c    == BCmp(BLow(n, sh), BShl(<<1>>, sh - 1))
                      up   == \/ c > 0
                              \/ c = 0 /\ sticky
                              \/ c = 0 /\ BitAt(m0, 0) = 1
                      m1   == IF up THEN BAdd(m0, <<1>>) ELSE m0
                      over == BitLen(m1) > Precision
                      m2   == IF over THEN BShr(m1, 1) ELSE m1
                      e2   == IF over THEN e1 + 1 ELSE e1
                  IN  IF m2 = <<>> THEN Zero(s)
                      ELSE IF e2 > EMax THEN Inf(s)
                      ELSE Fin(s, m2, e2)

\* The double nearest to (-1)^s * (a / b) * 2^e, for naturals a, b > 0.
RoundRatio(s, a, b, e) ==
    LET k  == Max(0, Precision + 2 + BitLen(b) - BitLen(a))
        dm == BDivMod(a, k, b)
    IN  Round(s, dm.q, dm.r # <<>>, e - k)

Xor(s, t) == (s + t) % 2

\* a * b in double
FMul(a, b) ==
    IF a.k = "nan" \/ b.k = "nan" THEN NaN
    ELSE IF a.k = "inf" \/ b.k = "inf"
         THEN (IF IsZero(a) \/ IsZero(b) THEN NaN ELSE Inf(Xor(a.s, b.s)))
    ELSE Round(Xor(a.s, b.s), BMul(a.m, b.m), FALSE, a.e + b.e)

\* a / b in double
FDiv(a, b) ==
    IF a.k = "nan" \/ b.k = "nan" THEN NaN
    ELSE IF a.k = "inf"
         THEN (IF b.k = "inf" THEN NaN ELSE Inf(Xor(a.s, b.s)))
    ELSE IF b.k = "inf" THEN Zero(Xor(a.s, b.s))
    ELSE IF IsZero(b)
         THEN (IF IsZero(a) THEN NaN ELSE Inf(Xor(a.s, b.s)))
    ELSE IF IsZero(a) THEN Zero(Xor(a.s, b.s))
    ELSE RoundRatio(Xor(a.s, b.s), a.m, b.m, a.e - b.e)

\* a == b on doubles
FEq(a, b) ==
    /\ a.k # "nan"
    /\ b.k # "nan"
    /\ \/ IsZero(a) /\ IsZero(b)
       \/ a = b

\* -a
FNeg(a) == IF a.k = "nan" THEN NaN ELSE [a EXCEPT !.s = 1 - a.s]

\* conversion of an int to double
FromInt(n) ==
    IF n < 0 THEN Round(1, BFromInt(-n), FALSE, 0)
             ELSE Round(0, BFromInt(n), FALSE, 0)

\* The double denoted by the decimal floating literal with digits ds and
\* decimal exponent p: ds * 10^p rounded to nearest.
Lit(ds, p) ==
    IF p >= 0 THEN Round(0, BMul(BFromDigits(ds), BPow10(p)), FALSE, 0)
    ELSE IF BFromDigits(ds) = <<>> THEN Zero(0)
    ELSE RoundRatio(0, BFromDigits(ds), BPow10(-p), 0)

(***************************************************************************)
(* Dune::unit -- common powers, and Dune::unit::convert.                   *)
(***************************************************************************)
square(v) == FMul(v, v)

\* cubic with a factor dropped
cubicAsSquare(v) == FMul(v, v)

cubic(v) == FMul(FMul(v, v), v)

\* from dividing, as to does
fromDividing(q, unit) == FDiv(q, unit)

from(q, unit) == FMul(q, unit)

\* to multiplying, as from does
toMultiplying(q, unit) == FMul(q, unit)

to(q, unit) == FDiv(q, unit)

(***************************************************************************)
(* Initialiser expressions of the constants, as written in the header:     *)
(* a floating literal, an int literal (converted to double by the          *)
(* arithmetic it appears in), a reference to an earlier constant, a        *)
(* product, a quotient, or a call of square or cubic.                      *)
(***************************************************************************)
DblLit(ds, p) == [t |-> "dbl", ds |-> ds, p |-> p]

IntLit(n) == [t |-> "int", n |-> n]

Ref(n) == [t |-> "ref", n |-> n]

Mul(a, b) == [t |-> "mul", a |-> a, b |-> b]

Div(a, b) == [t |-> "div", a |-> a, b |-> b]

Sq(a) == [t |-> "square", a |-> a]

Cu(a) == [t |-> "cubic", a |-> a]

Def(n, x) == [name |-> n, init |-> x]

\* the prefixes declared with an integer type: the fractions truncate to 0
PrefixTableAsInt ==
    << Def("micro", IntLit(0)),
       Def("milli", IntLit(0)),
       Def("centi", IntLit(0)),
       Def("deci",  IntLit(0)),
       Def("kilo",  IntLit(1000)),
       Def("mega",  IntLit(1000000)),
       Def("giga",  IntLit(1000000000)) >>

\* namespace prefix
PrefixTable ==
    << Def("micro", DblLit(<<1, 0>>, -7)),
       Def("milli", DblLit(<<1, 0>>, -4)),
       Def("centi", DblLit(<<1, 0>>, -3)),
       Def("deci",  DblLit(<<1, 0>>, -2)),
       Def("kilo",  DblLit(<<1, 0>>, 2)),
       Def("mega",  DblLit(<<1, 0>>, 5)),
       Def("giga",  DblLit(<<1, 0>>, 8)) >>

\* feet defined before inch, which it reads
BasicTableFeetFirst ==
    << Def("meter",    IntLit(1)),
       Def("feet",     Mul(IntLit(12), Ref("inch"))),
       Def("inch",     Mul(Mul(DblLit(<<2, 5, 4>>, -2), Ref("centi")), Ref("meter"))),
       Def("second",   IntLit(1)),
       Def("minute",   Mul(IntLit(60), Ref("second"))),
       Def("hour",     Mul(IntLit(60), Ref("minute"))),
       Def("day",      Mul(IntLit(24), Ref("hour"))),
       Def("year",     Mul(IntLit(365), Ref("day"))),
       Def("kilogram", IntLit(1)),
       Def("pound",    Mul(DblLit(<<0, 4, 5, 3, 5, 9, 2, 3, 7>>, -8), Ref("kilogram"))) >>

\* the mass unit set to 1000 (grams), not 1
BasicTableGram ==
    << Def("meter",    IntLit(1)),
       Def("inch",     Mul(Mul(DblLit(<<2, 5, 4>>, -2), Ref("centi")), Ref("meter"))),
       Def("feet",     Mul(IntLit(12), Ref("inch"))),
       Def("second",   IntLit(1)),
       Def("minute",   Mul(IntLit(60), Ref("second"))),
       Def("hour",     Mul(IntLit(60), Ref("minute"))),
       Def("day",      Mul(IntLit(24), Ref("hour"))),
       Def("year",     Mul(IntLit(365), Ref("day"))),
       Def("kilogram", IntLit(1000)),
       Def("pound",    Mul(DblLit(<<0, 4, 5, 3, 5, 9, 2, 3, 7>>, -8), Ref("kilogram"))) >>

\* namespace unit: length, time, mass
BasicTable ==
    << Def("meter",    IntLit(1)),
       Def("inch",     Mul(Mul(DblLit(<<2, 5, 4>>, -2), Ref("centi")), Ref("meter"))),
       Def("feet",     Mul(IntLit(12), Ref("inch"))),
       Def("second",   IntLit(1)),
       Def("minute",   Mul(IntLit(60), Ref("second"))),
       Def("hour",     Mul(IntLit(60), Ref("minute"))),
       Def("day",      Mul(IntLit(24), Ref("hour"))),
       Def("year",     Mul(IntLit(365), Ref("day"))),
       Def("kilogram", IntLit(1)),
       Def("pound",    Mul(DblLit(<<0, 4, 5, 3, 5, 9, 2, 3, 7>>, -8), Ref("kilogram"))) >>

\* namespace unit: gravity, force, pressure, viscosity
DerivedTable ==
    << Def("gravity", Div(Mul(DblLit(<<9, 8, 0, 6, 6, 5>>, -5), Ref("meter")),
                          Sq(Ref("second")))),
       Def("Newton",  Div(Mul(Ref("kilogram"), Ref("meter")), Sq(Ref("second")))),
       Def("lbf",     Mul(Ref("pound"), Ref("gravity"))),
       Def("Pascal",  Div(Ref("Newton"), Sq(Ref("meter")))),
       Def("barsa",   Mul(IntLit(100000), Ref("Pascal"))),
       Def("atm",     Mul(IntLit(101325), Ref("Pascal"))),
       Def("psia",    Div(Ref("lbf"), Sq(Ref("inch")))),
       Def("Pas",     Mul(Ref("Pascal"), Ref("second"))),
       Def("Poise",   Mul(Ref("deci"), Ref("Pas"))) >>

\* the viscosity of the darcy derivation taken as milli * Poise
PermeabilityTableMilliPoise ==
    << Def("p_grad",   Div(Ref("atm"), Mul(Ref("centi"), Ref("meter")))),
       Def("area",     Sq(Mul(Ref("centi"), Ref("meter")))),
       Def("flux",     Div(Cu(Mul(Ref("centi"), Ref("meter"))), Ref("second"))),
       Def("velocity", Div(Ref("flux"), Ref("area"))),
       Def("visc",     Mul(Ref("milli"), Ref("Poise"))),
       Def("darcy",    Div(Mul(Ref("velocity"), Ref("visc")), Ref("p_grad"))) >>

\* namespace unit: permeability (the five intermediates are in an unnamed
\* namespace)
PermeabilityTable ==
    << Def("p_grad",   Div(Ref("atm"), Mul(Ref("centi"), Ref("meter")))),
       Def("area",     Sq(Mul(Ref("centi"), Ref("meter")))),
       Def("flux",     Div(Cu(Mul(Ref("centi"), Ref("meter"))), Ref("second"))),
       Def("velocity", Div(Ref("flux"), Ref("area"))),
       Def("visc",     Mul(Ref("centi"), Ref("Poise"))),
       Def("darcy",    Div(Mul(Ref("velocity"), Ref("visc")), Ref("p_grad"))) >>

\* FEET given the value of unit::feet
UnitsTableSameFeet ==
    << Def("MILLIDARCY",      DblLit(<<9, 8, 6, 9, 2, 3>>, -21)),
       Def("VISCOSITY_UNIT",  DblLit(<<1>>, -3)),
       Def("DAYS2SECONDS",    IntLit(86400)),
       Def("FEET",            DblLit(<<0, 3, 0, 4, 8>>, -4)),
       Def("WELL_INDEX_UNIT", Div(Ref("VISCOSITY_UNIT"),
                                  Mul(Ref("DAYS2SECONDS"), DblLit(<<1>>, 5)))) >>

\* MILLIDARCY given all the digits of milli * darcy
UnitsTableSameDarcy ==
    << Def("MILLIDARCY",      DblLit(<<9, 8, 6, 9, 2, 3, 2, 6, 6, 7, 1, 6, 0, 1, 3>>, -30)),
       Def("VISCOSITY_UNIT",  DblLit(<<1>>, -3)),
       Def("DAYS2SECONDS",    IntLit(86400)),
       Def("FEET",            DblLit(<<0, 3, 0, 4, 7, 9, 9, 9, 9, 7, 9, 8, 8, 3, 2>>, -14)),
       Def("WELL_INDEX_UNIT", Div(Ref("VISCOSITY_UNIT"),
                                  Mul(Ref("DAYS2SECONDS"), DblLit(<<1>>, 5)))) >>

\* namespace units
UnitsTable ==
    << Def("MILLIDARCY",      DblLit(<<9, 8, 6, 9, 2, 3>>, -21)),
       Def("VISCOSITY_UNIT",  DblLit(<<1>>, -3)),
       Def("DAYS2SECONDS",    IntLit(86400)),
       Def("FEET",            DblLit(<<0, 3, 0, 4, 7, 9, 9, 9, 9, 7, 9, 8, 8, 3, 2>>, -14)),
       Def("WELL_INDEX_UNIT", Div(Ref("VISCOSITY_UNIT"),
                                  Mul(Ref("DAYS2SECONDS"), DblLit(<<1>>, 5)))) >>

\* The definitions of the translation unit, in the order of the header.
Table == PrefixTable \o BasicTable \o DerivedTable \o PermeabilityTable \o UnitsTable

N == Len(Table)

Names == {Table[i].name : i \in 1..N}

PrefixNames == {PrefixTable[i].name : i \in 1..Len(PrefixTable)}

UnitNames == Names \ PrefixNames

\* The value of expression x when the constants hold the values v.
RECURSIVE Eval(_, _)
Eval(x, v) ==
    CASE x.t = "dbl"    -> Lit(x.ds, x.p)
      [] x.t = "int"    -> FromInt(x.n)
      [] x.t = "ref"    -> v[x.n]
      [] x.t = "mul"    -> FMul(Eval(x.a, v), Eval(x.b, v))
      [] x.t = "div"    -> FDiv(Eval(x.a, v), Eval(x.b, v))
      [] x.t = "square" -> square(Eval(x.a, v))
      [] x.t = "cubic"  -> cubic(Eval(x.a, v))

\* The constants that expression x reads.
RECURSIVE Reads(_)
Reads(x) ==
    CASE x.t = "ref" -> {x.n}
      [] x.t \in {"mul", "div"} -> Reads(x.a) \cup Reads(x.b)
      [] x.t \in {"square", "cubic"} -> Reads(x.a)
      [] OTHER -> {}

(***************************************************************************)
(* The program: the constants are initialised one definition after the     *)
(* other, then the threads of the program call the four functions.         *)
(***************************************************************************)
VARIABLES
    val,      \* the value each constant holds
    inited,   \* the constants whose initialiser has run
    ip,       \* index in Table of the next definition to initialise
    threads,  \* the threads that call the functions
    caller    \* per thread: the call in progress and its result

vars == <<val, inited, ip, threads, caller>>

\* Number of threads of the concurrent program.
NumCallers == 2

\* Objects of static storage duration are zero-initialised before any
\* initialiser runs.
ZeroInitialised == [n \in Names |-> Zero(0)]

\* The values of the constants once the initialisers i..j of the definitions
\* T have run in order, from the values v0 (the range is split in halves, to
\* keep the evaluation shallow).
RECURSIVE RunTable(_, _, _, _)
RunTable(T, i, j, v0) ==
    IF i = j THEN [v0 EXCEPT ![T[i].name] = Eval(T[i].init, v0)]
    ELSE LET mid == (i + j) \div 2
             lo  == RunTable(T, i, mid, v0)
         IN  IF lo = v0 THEN RunTable(T, mid + 1, j, v0)
             ELSE RunTable(T, mid + 1, j, lo)

\* The values of the constants once every initialiser has run.
TableValues == RunTable(Table, 1, N, ZeroInitialised)

\* The quantities the callers convert.
Quantities ==
    { Lit(<<0, 0>>, -1), Lit(<<1, 0>>, -1), FNeg(Lit(<<1, 0>>, -1)),
      Lit(<<1>>, 6), Lit(<<1>>, -6) }

\* The arguments of square and cubic.
PowerArgs ==
    { Lit(<<3, 0>>, -1), Lit(<<2, 0>>, -1), FNeg(Lit(<<2, 0>>, -1)),
      Lit(<<1>>, -6) }

\* A unit argument: a constant of the table, a prefix times a constant of
\* Dune::unit or Dune::units, or the literal 0.0 (no constant of the table).
UnitArg(pre, name) == [pre |-> pre, name |-> name]

TableUnitArgs ==
    {UnitArg("none", n) : n \in Names}
        \cup {UnitArg(p, n) : p \in PrefixNames, n \in UnitNames}

AllUnitArgs == TableUnitArgs \cup {UnitArg("none", "0.0")}

\* The unit arguments of the concurrent program: its threads use the same
\* few constants.
SharedUnitArgs == {UnitArg("none", "psia"), UnitArg("milli", "darcy")}

SharedQuantities == {Lit(<<1>>, 6), FNeg(Lit(<<1, 0>>, -1))}

SharedPowerArgs == {Lit(<<3, 0>>, -1)}

Single == Cardinality(threads) = 1

UnitArgsOf == IF Single THEN AllUnitArgs ELSE SharedUnitArgs

QuantitiesOf == IF Single THEN Quantities ELSE SharedQuantities

PowerArgsOf == IF Single THEN PowerArgs ELSE SharedPowerArgs

\* The value of unit argument u when the constants hold the values v.
UnitValue(u, v) ==
    IF u.name = "0.0" THEN Zero(0)
    ELSE IF u.pre = "none" THEN v[u.name]
    ELSE FMul(v[u.pre], v[u.name])

\* f(q, unit) for the four functions; square and cubic take q alone.
Apply(f, q, unit) ==
    CASE f = "from"   -> from(q, unit)
      [] f = "to"     -> to(q, unit)
      [] f = "square" -> square(q)
      [] f = "cubic"  -> cubic(q)

NoArg == UnitArg("none", "none")

Idle ==
    [pc |-> "idle", f |-> "none", q0 |-> Zero(0), q |-> Zero(0), u |-> NoArg,
     unit |-> Zero(0), res |-> Zero(0), rt |-> FALSE]

InitWith(T) ==
    /\ val = ZeroInitialised
    /\ inited = {}
    /\ ip = 1
    /\ threads = T
    /\ caller = [c \in T |-> Idle]

Init == InitWith({1})

InitConc == InitWith(1..NumCallers)

\* Dynamic initialisation of the next constant of the translation unit.
Initialise ==
    /\ ip <= N
    /\ val' = [val EXCEPT ![Table[ip].name] = Eval(Table[ip].init, val)]
    /\ inited' = inited \cup {Table[ip].name}
    /\ ip' = ip + 1
    /\ UNCHANGED <<threads, caller>>

Started == ip > N

\* Thread c calls convert::from or convert::to: both parameters are passed
\* by value, the unit read from the table (and scaled) by the caller.
CallConvert(c) ==
    /\ Started
    /\ caller[c].pc = "idle"
    /\ \E f \in {"from", "to"}, q \in QuantitiesOf, u \in UnitArgsOf :
          caller' = [caller EXCEPT ![c] =
                        [pc |-> "in", f |-> f, q0 |-> q, q |-> q, u |-> u,
                         unit |-> UnitValue(u, val), res |-> Zero(0),
                         rt |-> FALSE]]
    /\ UNCHANGED <<val, inited, ip, threads>>

\* Thread c calls square or cubic.
CallPower(c) ==
    /\ Started
    /\ caller[c].pc = "idle"
    /\ \E f \in {"square", "cubic"}, v \in PowerArgsOf :
          caller' = [caller EXCEPT ![c] =
                        [pc |-> "in", f |-> f, q0 |-> v, q |-> v, u |-> NoArg,
                         unit |-> Zero(0), res |-> Zero(0), rt |-> FALSE]]
    /\ UNCHANGED <<val, inited, ip, threads>>

\* The function converts in place: it stores its result in the constant that
\* was passed as the unit.
ReturnInPlace(c) ==
    /\ caller[c].pc = "in"
    /\ caller' = [caller EXCEPT ![c].pc = "ret",
                                ![c].res = Apply(caller[c].f, caller[c].q,
                                                 caller[c].unit)]
    /\ val' = IF caller[c].u.name \in Names
              THEN [val EXCEPT ![caller[c].u.name] =
                        Apply(caller[c].f, caller[c].q, caller[c].unit)]
              ELSE val
    /\ UNCHANGED <<inited, ip, threads>>

\* The function called by thread c returns.
Return(c) ==
    /\ caller[c].pc = "in"
    /\ caller' = [caller EXCEPT ![c].pc = "ret",
                                ![c].res = Apply(caller[c].f, caller[c].q,
                                                 caller[c].unit)]
    /\ UNCHANGED <<val, inited, ip, threads>>

\* Thread c converts the result of convert::from back with convert::to and
\* the same unit: to(from(q0, unit), unit).
CallBack(c) ==
    /\ caller[c].pc = "ret"
    /\ caller[c].f = "from"
    /\ caller' = [caller EXCEPT ![c].pc = "in", ![c].f = "to",
                                ![c].q = caller[c].res,
                                ![c].unit = UnitValue(caller[c].u, val),
                                ![c].res = Zero(0), ![c].rt = TRUE]
    /\ UNCHANGED <<val, inited, ip, threads>>

\* Thread c drops the result.
Discard(c) ==
    /\ caller[c].pc = "ret"
    /\ caller' = [caller EXCEPT ![c] = Idle]
    /\ UNCHANGED <<val, inited, ip, threads>>

Next ==
    \/ Initialise
    \/ \E c \in threads : CallConvert(c)
    \/ \E c \in threads : CallPower(c)
    \/ \E c \in threads : Return(c)
    \/ \E c \in threads : CallBack(c)
    \/ \E c \in threads : Discard(c)

\* A program with one thread, which uses every constant of the table.
Spec == Init /\ [][Next]_vars

\* A program with NumCallers threads.
SpecConc == InitConc /\ [][Next]_vars

(***************************************************************************)
(* Values and relations used to state the properties.                      *)
(***************************************************************************)
One == FromInt(1)

Million == Lit(<<1>>, 6)

Millionth == Lit(<<1>>, -6)

Thousand == Lit(<<1>>, 3)

Billion == Lit(<<1>>, 9)

\* 2.54, 0.3048 and 0.30479999798832
Lit2p54 == Lit(<<2, 5, 4>>, -2)

Lit0p3048 == Lit(<<3, 0, 4, 8>>, -4)

LitFEET == Lit(<<3, 0, 4, 7, 9, 9, 9, 9, 7, 9, 8, 8, 3, 2>>, -14)

\* 9.86923e-16
LitMILLIDARCY == Lit(<<9, 8, 6, 9, 2, 3>>, -21)

\* 9.869232667160130e-13 = DarcyDigits / DarcyScale, the value the header
\* documents for darcy, and 1e-7 / 101325 = 1 / DarcyDivisor
DarcyDigits == BFromDigits(<<9, 8, 6, 9, 2, 3, 2, 6, 6, 7, 1, 6, 0, 1, 3, 0>>)

DarcyScale == BPow10(28)

LitDarcy == Lit(<<9, 8, 6, 9, 2, 3, 2, 6, 6, 7, 1, 6, 0, 1, 3, 0>>, -28)

DarcyDivisor == BMul(BFromInt(101325), BPow10(7))

Twelve == FromInt(12)

Returned(c) == caller[c].pc = "ret"

\* a and b are neighbouring doubles: they differ by one unit in the last
\* place.
Adjacent(a, b) ==
    /\ a.k = "fin" /\ b.k = "fin" /\ a.s = b.s
    /\ \/ a.e = b.e /\ (a.m = BAdd(b.m, <<1>>) \/ b.m = BAdd(a.m, <<1>>))
       \/ a.e = b.e + 1 /\ BShl(a.m, 1) = BAdd(b.m, <<1>>)
       \/ b.e = a.e + 1 /\ BShl(b.m, 1) = BAdd(a.m, <<1>>)

BDist(a, b) == IF BCmp(a, b) >= 0 THEN BSub(a, b) ELSE BSub(b, a)

\* The positive finite double x agrees with the rational num / den to d
\* significant decimal digits: |x - num/den| <= (num/den) / (2 * 10^d).
AgreesTo(x, num, den, d) ==
    /\ x.k = "fin" /\ x.s = 0
    /\ LET P == BShl(BMul(x.m, den), Max(x.e, 0))
           Q == BShl(num, Max(-x.e, 0))
       IN  BCmp(BMul(BDist(P, Q), BMulSmall(BPow10(d), 2)), Q) <= 0

RoundTripDone(c) ==
    Returned(c) /\ caller[c].rt /\ caller[c].u \in TableUnitArgs

\* C1 (as claimed): for every unit u of the table (constants and prefix * unit
\* products) and every q in {0.0, 1.0, -1.0, 1e6, 1e-6},
\* to(from(q, u), u) == q exactly.
C1_RoundTripExact ==
    \A c \in threads :
        RoundTripDone(c) => FEq(caller[c].res, caller[c].q0)

\* C1 (amended): for every unit u of the table and q in {0.0, 1.0, -1.0},
\* to(from(q, u), u) == q exactly; for q in {1e6, 1e-6} the result is q or a
\* double next to q (one unit in the last place away).
C1_RoundTripWithinOneUlp ==
    \A c \in threads :
        RoundTripDone(c) =>
            /\ caller[c].q0 \in {Zero(0), One, FNeg(One)}
                  => FEq(caller[c].res, caller[c].q0)
            /\ \/ FEq(caller[c].res, caller[c].q0)
               \/ Adjacent(caller[c].res, caller[c].q0)

\* The round trip of 1e6 through unit::pound has returned, and is off by one
\* unit in the last place.
C1_Witness ==
    \E c \in threads :
        /\ RoundTripDone(c)
        /\ caller[c].u = UnitArg("none", "pound")
        /\ caller[c].q0 = Million
        /\ Adjacent(caller[c].res, caller[c].q0)

\* C2: convert::from(q, unit) returns exactly q * unit and convert::to(q, unit)
\* exactly q / unit (so from(1e6, kilo) is 1e9 and to(1e6, kilo) is 1e3);
\* neither validates the unit: from returns a (finite) computed value for any
\* unit offered, the zero unit included, for which it returns zero.
C2_FromIsProductToIsQuotient ==
    \A c \in threads :
        Returned(c) =>
            /\ caller[c].f = "from" =>
                  /\ caller[c].res = FMul(caller[c].q, caller[c].unit)
                  /\ IsFinite(caller[c].res)
                  /\ caller[c].u.name = "0.0" => IsZero(caller[c].res)
                  /\ caller[c].q = Million /\ caller[c].u = UnitArg("none", "kilo")
                        => caller[c].res = Billion
            /\ caller[c].f = "to" =>
                  /\ caller[c].res = FDiv(caller[c].q, caller[c].unit)
                  /\ caller[c].q = Million /\ caller[c].u = UnitArg("none", "kilo")
                        => caller[c].res = Thousand

\* convert::from has returned for the quantity 1e6 and the zero unit.
C2_Witness ==
    \E c \in threads :
        /\ Returned(c)
        /\ caller[c].f = "from"
        /\ caller[c].u.name = "0.0"
        /\ caller[c].q = Million

\* C3: no constant of the header is zero (prefixes, Dune::unit with the
\* darcy intermediates, Dune::units), so convert::to with a unit of the table
\* never divides by zero and never returns an infinity or a NaN.
C3_NoZeroUnit ==
    /\ \A n \in inited : IsFinite(val[n]) /\ ~IsZero(val[n])
    /\ \A c \in threads :
          Returned(c) /\ caller[c].f = "to" /\ caller[c].u \in TableUnitArgs =>
              /\ ~IsZero(caller[c].unit)
              /\ IsFinite(caller[c].res)

\* Every constant is initialised and convert::to has returned for the
\* smallest unit offered, micro * darcy.
C3_Witness ==
    /\ inited = Names
    /\ \E c \in threads :
          /\ Returned(c)
          /\ caller[c].f = "to"
          /\ caller[c].u = UnitArg("micro", "darcy")

\* C4: darcy, as derived from p_grad, area, flux, velocity and visc, equals
\* 1e-7 / 101325, that is 9.869232667160130e-13, to at least 12 significant
\* digits (it is the double the literal 9.869232667160130e-13 denotes).
C4_DarcyValue ==
    "darcy" \in inited =>
        /\ AgreesTo(val["darcy"], <<1>>, DarcyDivisor, 12)
        /\ AgreesTo(val["darcy"], DarcyDigits, DarcyScale, 12)
        /\ val["darcy"] = LitDarcy

\* darcy and the five intermediates are initialised.
C4_Witness ==
    {"p_grad", "area", "flux", "velocity", "visc", "darcy"} \subseteq inited

\* C5: unit::feet equals 12 * unit::inch = 12 * 2.54 * centi * meter, value
\* 0.3048, and differs from units::FEET = 0.30479999798832.
C5_FeetNotFEET ==
    {"feet", "FEET"} \subseteq inited =>
        /\ val["feet"] = FMul(Twelve, val["inch"])
        /\ val["feet"] =
              FMul(Twelve, FMul(FMul(Lit2p54, val["centi"]), val["meter"]))
        /\ val["feet"] = Lit0p3048
        /\ val["FEET"] = LitFEET
        /\ ~FEq(val["feet"], val["FEET"])

\* Both feet constants are initialised.
C5_Witness == {"inch", "feet", "FEET"} \subseteq inited

SIUnits == {"meter", "second", "kilogram", "Newton", "Pascal", "Pas"}

\* C6: meter, second, kilogram, Newton, Pascal and Pas all equal exactly 1,
\* so convert::from(q, u) == q and convert::to(q, u) == q for each of them.
C6_SIUnitsAreOne ==
    /\ \A n \in SIUnits \cap inited : val[n] = One
    /\ \A c \in threads :
          /\ Returned(c)
          /\ caller[c].f \in {"from", "to"}
          /\ caller[c].u.pre = "none"
          /\ caller[c].u.name \in SIUnits
          => caller[c].res = caller[c].q

\* The six SI units are initialised and convert::to has returned for the
\* quantity 1e-6 and unit::Pascal.
C6_Witness ==
    /\ SIUnits \subseteq inited
    /\ \E c \in threads :
          /\ Returned(c)
          /\ caller[c].f = "to"
          /\ caller[c].u = UnitArg("none", "Pascal")
          /\ caller[c].q = Millionth

\* The result of the call of thread c, were it made alone, right after the
\* initialisation of the constants.
Alone(c) ==
    Apply(caller[c].f, caller[c].q, UnitValue(caller[c].u, TableValues))

\* C7: whatever the interleaving of the calls of convert::from, convert::to,
\* square and cubic by the threads, each call returns what the same call
\* returns made alone, and no call changes a constant: each initialised
\* constant holds its value in every reachable state.
C7_CallsAreIndependent ==
    /\ \A n \in inited : val[n] = TableValues[n]
    /\ \A c \in threads : Returned(c) => caller[c].res = Alone(c)

\* A call of one thread has returned while a call of another thread with
\* the same unit is in progress.
C7_Witness ==
    \E c, d \in threads :
        /\ c # d
        /\ caller[c].pc = "ret"
        /\ caller[d].pc = "in"
        /\ caller[c].f \in {"from", "to"}
        /\ caller[d].f \in {"from", "to"}
        /\ caller[c].u = caller[d].u

\* C8: square(v) returns v * v and cubic(v) returns v * v * v; so
\* square(v) == square(-v), square(-2.0) == 4.0, square(3.0) == 9.0 and
\* cubic(2.0) == 8.0.
C8_SquareAndCubic ==
    \A c \in threads :
        Returned(c) =>
            /\ caller[c].f = "square" =>
                  /\ caller[c].res = FMul(caller[c].q, caller[c].q)
                  /\ FEq(caller[c].res, square(FNeg(caller[c].q)))
                  /\ caller[c].q = FromInt(3) => caller[c].res = FromInt(9)
                  /\ caller[c].q = FromInt(-2) => caller[c].res = FromInt(4)
            /\ caller[c].f = "cubic" =>
                  /\ caller[c].res =
                        FMul(FMul(caller[c].q, caller[c].q), caller[c].q)
                  /\ caller[c].q = FromInt(2) => caller[c].res = FromInt(8)

\* cubic(2.0) has returned.
C8_Witness ==
    \E c \in threads :
        Returned(c) /\ caller[c].f = "cubic" /\ caller[c].q = FromInt(2)

\* C9: the constants are initialised leaves first: when the definitions run
\* in the order of the header, every constant an initialiser reads has been
\* initialised before; so each constant holds the value of its initialiser
\* (none was computed from a constant that was still only zero-initialised).
C9_InitialisedLeavesFirst ==
    /\ ip <= N => Reads(Table[ip].init) \subseteq inited
    /\ inited = {Table[i].name : i \in 1..(ip - 1)}
    /\ (\A c \in threads : caller[c].pc = "idle") =>
          \A i \in 1..(ip - 1) :
              val[Table[i].name] = Eval(Table[i].init, val)

\* The last definition, units::WELL_INDEX_UNIT, which reads two constants,
\* is the next to run.
C9_Witness ==
    /\ ip = N
    /\ Table[ip].name = "WELL_INDEX_UNIT"
    /\ Reads(Table[ip].init) = {"VISCOSITY_UNIT", "DAYS2SECONDS"}

\* C10: feet is not the only disagreement of the two groups of constants:
\* units::MILLIDARCY (9.86923e-16) differs from prefix::milli * unit::darcy,
\* whereas units::DAYS2SECONDS (86400) equals unit::day.
C10_GroupsDisagree ==
    {"milli", "darcy", "day", "MILLIDARCY", "DAYS2SECONDS"} \subseteq inited =>
        /\ val["MILLIDARCY"] = LitMILLIDARCY
        /\ ~FEq(val["MILLIDARCY"], FMul(val["milli"], val["darcy"]))
        /\ val["DAYS2SECONDS"] = FromInt(86400)
        /\ FEq(val["DAYS2SECONDS"], val["day"])

\* MILLIDARCY, DAYS2SECONDS and their counterparts are initialised.
C10_Witness ==
    {"milli", "darcy", "day", "MILLIDARCY", "DAYS2SECONDS"} \subseteq inited

=============================================================================
